---- MODULE Spec2Model ----
(***************************************************************************)
(* Model of the LiankePrintBox MCP server (src/main.py): the eight tool    *)
(* operations, the device-context resolution, the default-printer          *)
(* resolution, the job-parameter merge and the document acquisition.       *)
(*                                                                         *)
(* One behaviour is one tool call: Init draws the call as the host         *)
(* delivers it (headers and arguments), the operation's action runs the    *)
(* whole handler against the outcomes the remote service, the document     *)
(* server and the filesystem can produce, and leaves the value handed back *)
(* to the host in `result` and every external invocation made during the   *)
(* call, in order, in `calls`.  The handlers share no state (main.py keeps *)
(* none between calls), so one call per behaviour loses nothing.           *)
(*                                                                         *)
(* Text that the code parses (kwargs, the dm_* options, the URL or path)   *)
(* is a sequence of one-character strings; text that the code only passes *)
(* on or tests for emptiness is a string.  A Python int is [int |-> n] and *)
(* a Python str is [str |-> s] wherever the two can meet in one dict.      *)
(***************************************************************************)
EXTENDS Integers, Sequences, FiniteSets, TLC

VARIABLES request, pc, result, calls

vars == <<request, pc, result, calls>>

-----------------------------------------------------------------------------
(* Python values *)

\* Python's None where a str is expected (headers.get of an absent header,
\* an argument left at its default None).
None == "<None>"

\* (a test for None only, which lets the empty string through)
TruthyNotNone(v) == v # None
\* Python truthiness of an Optional[str]: None and "" are false.
Truthy(v) == v # None /\ v # ""

\* `a or b`
Or(a, b) == IF Truthy(a) THEN a ELSE b

PyInt(n) == [int |-> n]
PyStr(s) == [str |-> s]

-----------------------------------------------------------------------------
(* Text: str methods used by the handlers, on sequences of characters *)

RECURSIVE Join(_)
\* the str made of the characters cs
Join(cs) == IF cs = <<>> THEN "" ELSE Head(cs) \o Join(Tail(cs))

Whitespace == {" "}

RECURSIVE LStrip(_)
LStrip(cs) ==
    IF cs # <<>> /\ Head(cs) \in Whitespace THEN LStrip(Tail(cs)) ELSE cs

RECURSIVE RStrip(_)
RStrip(cs) ==
    IF cs # <<>> /\ cs[Len(cs)] \in Whitespace
    THEN RStrip(SubSeq(cs, 1, Len(cs) - 1))
    ELSE cs

\* str.strip()
Strip(cs) == RStrip(LStrip(cs))

\* `c in s`
Contains(cs, c) == \E i \in 1..Len(cs) : cs[i] = c

\* index of the first / last occurrence of c in cs (c occurs in cs)
FirstIndex(cs, c) ==
    CHOOSE i \in 1..Len(cs) : cs[i] = c /\ \A j \in 1..(i - 1) : cs[j] # c
LastIndex(cs, c) ==
    CHOOSE i \in 1..Len(cs) : cs[i] = c /\ \A j \in (i + 1)..Len(cs) : cs[j] # c

RECURSIVE Split(_, _)
\* str.split(sep): the pieces between the occurrences of sep
Split(cs, sep) ==
    IF ~Contains(cs, sep) THEN <<cs>>
    ELSE LET i == FirstIndex(cs, sep)
         IN  <<SubSeq(cs, 1, i - 1)>> \o Split(SubSeq(cs, i + 1, Len(cs)), sep)

\* str.split(sep, 1) of a text that contains sep: <<before, after>>
SplitOnce(cs, sep) ==
    LET i == FirstIndex(cs, sep)
    IN  <<SubSeq(cs, 1, i - 1), SubSeq(cs, i + 1, Len(cs))>>

\* str.lower(), on the letters the documents of the model use
LowerChar(c) ==
    CASE c = "D" -> "d"
      [] c = "O" -> "o"
      [] c = "C" -> "c"
      [] c = "X" -> "x"
      [] c = "P" -> "p"
      [] c = "F" -> "f"
      [] OTHER -> c
Lower(cs) == [i \in 1..Len(cs) |-> LowerChar(cs[i])]

Digits == {"0", "1", "2", "3", "4", "5", "6", "7", "8", "9"}
DigitValue(c) ==
    CASE c = "0" -> 0 [] c = "1" -> 1 [] c = "2" -> 2 [] c = "3" -> 3
      [] c = "4" -> 4 [] c = "5" -> 5 [] c = "6" -> 6 [] c = "7" -> 7
      [] c = "8" -> 8 [] c = "9" -> 9

RECURSIVE Decimal(_)
\* the value of a non-empty run of digits
Decimal(ds) ==
    IF Len(ds) = 1 THEN DigitValue(ds[1])
    ELSE 10 * Decimal(SubSeq(ds, 1, Len(ds) - 1)) + DigitValue(ds[Len(ds)])

\* int(text): surrounding whitespace is dropped, one sign is allowed, the rest
\* must be a non-empty run of digits; anything else raises ValueError.
IsIntText(cs) ==
    LET s == Strip(cs)
        body == IF s # <<>> /\ Head(s) \in {"+", "-"} THEN Tail(s) ELSE s
    IN  body # <<>> /\ \A i \in 1..Len(body) : body[i] \in Digits
IntOf(cs) ==
    LET s == Strip(cs)
        neg == s # <<>> /\ Head(s) = "-"
        body == IF s # <<>> /\ Head(s) \in {"+", "-"} THEN Tail(s) ELSE s
    IN  IF neg THEN 0 - Decimal(body) ELSE Decimal(body)

-----------------------------------------------------------------------------
(* Paths and MIME types *)

\* job_file_url.split('/')[-1] and, for a POSIX path, os.path.basename
Basename(cs) == LET parts == Split(cs, "/") IN parts[Len(parts)]

\* os.path.splitext(name)[1]: from the last dot on, unless only dots precede it
SplitExt(name) ==
    IF ~Contains(name, ".") THEN <<>>
    ELSE LET i == LastIndex(name, ".")
         IN  IF \A j \in 1..(i - 1) : name[j] = "." THEN <<>>
             ELSE SubSeq(name, i, Len(name))

OctetStream == "application/octet-stream"

\* The types_map of the mimetypes module as shipped (Python 3.11), on the
\* extensions the model uses ...
TypesMapBuiltin ==
    (".pdf" :> "application/pdf") @@ (".jpg" :> "image/jpeg") @@
    (".jpeg" :> "image/jpeg") @@ (".png" :> "image/png") @@
    (".gif" :> "image/gif") @@ (".bmp" :> "image/bmp") @@
    (".doc" :> "application/msword") @@ (".xls" :> "application/vnd.ms-excel") @@
    (".ppt" :> "application/vnd.ms-powerpoint") @@ (".txt" :> "text/plain")
\* ... and as extended at import time on a host that has a mime.types file.
TypesMapSystem ==
    TypesMapBuiltin @@
    (".docx" :> "application/vnd.openxmlformats-officedocument.wordprocessingml.document") @@
    (".xlsx" :> "application/vnd.openxmlformats-officedocument.spreadsheetml.sheet") @@
    (".pptx" :> "application/vnd.openxmlformats-officedocument.presentationml.presentation")
\* The host decides which of the two the process sees.
TypesMaps == {TypesMapBuiltin, TypesMapSystem}

\* mimetypes.guess_type(name)[0] under the table types_map: the extension is
\* looked up as written and then lower-cased; None when it is not listed.
guess_type(name, types_map) ==
    LET ext == Join(Lower(SplitExt(Basename(name))))
    IN  IF ext \in DOMAIN types_map THEN types_map[ext] ELSE None

\* the table of submit_print_job_with_file
mimetype_map ==
    (".pdf" :> "application/pdf") @@ (".jpg" :> "image/jpeg") @@
    (".jpeg" :> "image/jpeg") @@ (".png" :> "image/png") @@
    (".gif" :> "image/gif") @@ (".bmp" :> "image/bmp") @@
    (".doc" :> "application/msword") @@
    (".docx" :> "application/vnd.openxmlformats-officedocument.wordprocessingml.document") @@
    (".xls" :> "application/vnd.ms-excel") @@
    (".xlsx" :> "application/vnd.openxmlformats-officedocument.spreadsheetml.sheet") @@
    (".ppt" :> "application/vnd.ms-powerpoint") @@
    (".pptx" :> "application/vnd.openxmlformats-officedocument.presentationml.presentation") @@
    (".txt" :> "text/plain")

\* mimetype_map.get(ext, 'application/octet-stream') with
\* ext = os.path.splitext(filename)[1].lower()
MimeFromTable(filename) ==
    LET ext == Join(Lower(SplitExt(filename)))
    IN  IF ext \in DOMAIN mimetype_map THEN mimetype_map[ext] ELSE OctetStream

\* the MIME type submit_print_job attaches, given what guess_type returned
UrlMimeType(guessed) == IF Truthy(guessed) THEN guessed ELSE OctetStream

\* the MIME type submit_print_job_with_file attaches
FileMimeType(guessed, filename) ==
    IF Truthy(guessed) THEN guessed ELSE MimeFromTable(filename)

\* the filename submit_print_job attaches
DefaultFilename == <<"d", "o", "c", "u", "m", "e", "n", "t", ".", "p", "d", "f">>
UrlFilename(url) == IF Basename(url) # <<>> THEN Basename(url) ELSE DefaultFilename

-----------------------------------------------------------------------------
(* Exceptions *)

\* An exception: its class, the code and msg attributes of a
\* LiankePrintingException (has_code is FALSE when code is None), and str(e).
Exc(type, has_code, code, msg, text) ==
    [type |-> type, has_code |-> has_code, code |-> code, msg |-> msg, text |-> text]
NoExc == Exc("", FALSE, 0, "", "")

\* the classes an `except ValueError` clause catches
ValueErrorClasses == {"ValueError", "JSONDecodeError"}
\* the classes an `except requests.RequestException` clause catches
RequestExceptionClasses == {"Timeout", "HTTPError", "ConnectionError"}

ValueError(text) == Exc("ValueError", FALSE, 0, "", text)
TypeError(text) == Exc("TypeError", FALSE, 0, "", text)

-----------------------------------------------------------------------------
(* The overrides payload *)

KwEmpty == <<>>
KwEmptyObject == <<"{", "}">>
KwObject == <<"{", "\"", "d", "m", "C", "o", "p", "i", "e", "s", "\"", ":", "2", ",", "\"", "d", "m", "C", "o", "l", "o", "r", "\"", ":", "\"", "2", "\"", ",", "\"", "d", "u", "p", "l", "e", "x", "\"", ":", "1", "}">>
KwNumber == <<"7">>
KwString == <<"\"", "a", "b", "\"">>
KwEmptyArray == <<"[", "]">>
KwPairs == <<"a", "=", "1", ",", " ", "b", " ", "=", " ", "2", ",", "c">>
KwGarbage == <<"a", "b", "c">>

\* A decoded JSON value.
JsonObject(members) == [kind |-> "object", members |-> members, chars |-> <<>>]
JsonOther(kind) == [kind |-> kind, members |-> <<>>, chars |-> <<>>]
JsonString(cs) == [kind |-> "string", members |-> <<>>, chars |-> cs]

\* json.loads(text), on the payloads of the model: the decoded value, or
\* JSONDecodeError for a text that is not JSON.
json_loads(cs) ==
    CASE cs = KwEmptyObject -> [ok |-> TRUE, value |-> JsonObject(<<>>)]
      [] cs = KwObject ->
            [ok |-> TRUE,
             value |-> JsonObject(("dmCopies" :> PyInt(2)) @@
                                  ("dmColor" :> PyStr("2")) @@
                                  ("duplex" :> PyInt(1)))]
      [] cs = KwNumber -> [ok |-> TRUE, value |-> JsonOther("number")]
      [] cs = KwString -> [ok |-> TRUE, value |-> JsonString(<<"a", "b">>)]
      [] cs = KwEmptyArray -> [ok |-> TRUE, value |-> JsonOther("array")]
      [] OTHER -> [ok |-> FALSE, value |-> JsonOther("")]

\* (a merge in which the entries already present win)
UpdateKeepingOld(a, b) ==
    [k \in DOMAIN a \cup DOMAIN b |-> IF k \in DOMAIN a THEN a[k] ELSE b[k]]
\* dict.update: the entries of b replace and extend those of a
Update(a, b) ==
    [k \in DOMAIN a \cup DOMAIN b |-> IF k \in DOMAIN b THEN b[k] ELSE a[k]]

\* job_params.update(extra_params) for the decoded value v: a mapping is
\* merged; an empty array or an empty string has no items and changes
\* nothing; the characters of a non-empty string are items of length 1, which
\* raises ValueError; a number, a boolean or null is not iterable, which raises
\* TypeError.  (The arrays of the model are empty.)
dict_update(params, v) ==
    CASE v.kind = "object" -> [ok |-> TRUE, params |-> Update(params, v.members), e |-> NoExc]
      [] v.kind = "array" -> [ok |-> TRUE, params |-> params, e |-> NoExc]
      [] v.kind = "string" /\ v.chars = <<>> -> [ok |-> TRUE, params |-> params, e |-> NoExc]
      [] v.kind = "string" /\ v.chars # <<>> ->
            [ok |-> FALSE, params |-> params,
             e |-> ValueError("dictionary update sequence element #0 has length 1; 2 is required")]
      [] OTHER ->
            [ok |-> FALSE, params |-> params, e |-> TypeError("object is not iterable")]

RECURSIVE ApplyPairs(_, _)
\* for pair in pairs: if "=" in pair: key, value = pair.split("=", 1);
\*                                    job_params[key.strip()] = value.strip()
ApplyPairs(params, pairs) ==
    IF pairs = <<>> THEN params
    ELSE LET pair == Head(pairs)
             kv == SplitOnce(pair, "=")
             next == IF Contains(pair, "=")
                     THEN Update(params, Join(Strip(kv[1])) :> PyStr(Join(Strip(kv[2]))))
                     ELSE params
         IN  ApplyPairs(next, Tail(pairs))

\* the `if kwargs:` block of the two submit operations
merge_kwargs(params, kwargs) ==
    IF kwargs = <<>> THEN [ok |-> TRUE, params |-> params, e |-> NoExc]
    ELSE LET parsed == json_loads(kwargs)
         IN  IF parsed.ok THEN dict_update(params, parsed.value)
             ELSE IF Contains(kwargs, "=")
                  THEN [ok |-> TRUE, params |-> ApplyPairs(params, Split(kwargs, ",")), e |-> NoExc]
                  ELSE [ok |-> TRUE, params |-> params, e |-> NoExc]

-----------------------------------------------------------------------------
(* Results and the record of external invocations *)

\* msg: a literal of the code followed by the text of the error it embeds
\* (either may be empty).  The literals are rendered in English.
Msg(prefix, detail) == [prefix |-> prefix, detail |-> detail]

MsgNoApiKey == Msg("request headers lack ApiKey", "")
MsgEmptyContext == "API key, device id and device key must not be empty"
MsgNoPrinter == Msg("printer not connected", "")
MsgDownloadFailed == "download of the file failed: "
MsgFileMissing == "file does not exist: "
MsgReadFailed == "reading the file failed: "
MsgStatusFailed == Msg("getting the printer status failed", "")

NoData == [absent |-> TRUE]
EmptyData == [empty |-> TRUE]

\* the dict an operation returns
Result(code, msg) == [code |-> code, msg |-> msg, data |-> NoData]
ResultWithData(code, msg, data) == [code |-> code, msg |-> msg, data |-> data]
NoResult == Result(0, Msg("", ""))

\* how a handler, or its try block, ends: by returning v or by raising e,
\* after the invocations in calls
Returned(v, cs) == [t |-> "return", v |-> v, e |-> NoExc, calls |-> cs]
Raised(e, cs) == [t |-> "raise", v |-> NoResult, e |-> e, calls |-> cs]

NoFile == [filename |-> "", mimetype |-> ""]

\* One external invocation: the function, the device context of the client it
\* is made on (<<>> for none), its argument, the attachment and parameters of
\* an add_job, the exception it raised (NoExc for none), the printers a
\* printer_list returned and the value a local query returned.
Call(fn, ctx, arg, file, params, exc, rows, out) ==
    [fn |-> fn, ctx |-> ctx, arg |-> arg, file |-> file, params |-> params,
     exc |-> exc, rows |-> rows, out |-> out]

-----------------------------------------------------------------------------
(* The remote service, the document server and the filesystem *)

MaxPrinters == 2
PrinterIds == {"p1", "p2"}

\* The row lists a printer_list response can carry: every printer has a
\* non-empty hash_id.
PrinterRows ==
    UNION { [1..n -> [hash_id : PrinterIds]] : n \in 0..MaxPrinters }

\* A printer_list response: with data.row, or without a data entry.
PrinterListResponses ==
    {[has_data |-> FALSE, row |-> <<>>]} \cup
    {[has_data |-> TRUE, row |-> rows] : rows \in PrinterRows}

\* The response dict of the other client methods, with or without data.
RemoteResponses ==
    {ResultWithData(200, Msg("", "success"), [opaque |-> "payload"]),
     Result(200, Msg("", "success"))}

\* The faults the handlers expect of a LiankePrinting method: a
\* LiankePrintingException carrying the service's code (absent, zero or set)
\* and message.
ServiceFaults ==
    {Exc("LiankePrintingException", FALSE, 0, "service fault", "service fault"),
     Exc("LiankePrintingException", TRUE, 0, "service fault", "service fault"),
     Exc("LiankePrintingException", TRUE, 4001, "device offline", "device offline")}
\* What else a method can raise: a transport fault of the HTTP library (a
\* requests.RequestException) or any other exception.
UnexpectedFaults ==
    {Exc("ConnectionError", FALSE, 0, "", "connection aborted"),
     Exc("RuntimeError", FALSE, 0, "", "unexpected")}
ClientFaults == ServiceFaults \cup UnexpectedFaults

\* requests.get(url, timeout=30) followed by raise_for_status()
FetchFaults ==
    {Exc("Timeout", FALSE, 0, "", "read timed out"),
     Exc("HTTPError", FALSE, 0, "", "404 Client Error")}

\* open(file_path, 'rb') and f.read()
ReadFaults == {Exc("PermissionError", FALSE, 0, "", "permission denied")}

\* LiankePrinting(api_key, device_id, device_key): the client is its context
NewClient(api_key, device_id, device_key) ==
    [ctx |-> <<api_key, device_id, device_key>>,
     calls |-> <<Call("LiankePrinting", <<api_key, device_id, device_key>>,
                      PyStr(""), NoFile, <<>>, NoExc, <<>>, "")>>]

\* client.<fn>(arg) for the methods that return the response dict
ClientCall(fn, ctx, arg) ==
    {[t |-> "return", r |-> resp, e |-> NoExc,
      calls |-> <<Call(fn, ctx, arg, NoFile, <<>>, NoExc, <<>>, "")>>]
        : resp \in RemoteResponses} \cup
    {[t |-> "raise", r |-> NoResult, e |-> x,
      calls |-> <<Call(fn, ctx, arg, NoFile, <<>>, x, <<>>, "")>>]
        : x \in ClientFaults}

\* client.printer_status(printer_hash), which may also return None
PrinterStatusCall(ctx, arg) ==
    {[t |-> "return", is_none |-> FALSE, r |-> o.r, e |-> o.e, calls |-> o.calls]
        : o \in {c \in ClientCall("printer_status", ctx, arg) : c.t = "return"}} \cup
    {[t |-> "raise", is_none |-> FALSE, r |-> o.r, e |-> o.e, calls |-> o.calls]
        : o \in {c \in ClientCall("printer_status", ctx, arg) : c.t = "raise"}} \cup
    {[t |-> "return", is_none |-> TRUE, r |-> NoResult, e |-> NoExc,
      calls |-> <<Call("printer_status", ctx, arg, NoFile, <<>>, NoExc, <<>>, "")>>]}

\* client.printer_list(printer_type)
PrinterListCall(ctx, printer_type) ==
    {[t |-> "return", rows |-> IF resp.has_data THEN resp.row ELSE <<>>, e |-> NoExc,
      calls |-> <<Call("printer_list", ctx, PyInt(printer_type), NoFile, <<>>, NoExc,
                       IF resp.has_data THEN resp.row ELSE <<>>, "")>>]
        : resp \in PrinterListResponses} \cup
    {[t |-> "raise", rows |-> <<>>, e |-> x,
      calls |-> <<Call("printer_list", ctx, PyInt(printer_type), NoFile, <<>>, x, <<>>, "")>>]
        : x \in ClientFaults}

\* client.add_job(job_files, hash_id, **job_params)
AddJobCall(ctx, file, hash_id, params) ==
    {[t |-> "return", r |-> resp, e |-> NoExc,
      calls |-> <<Call("add_job", ctx, PyStr(hash_id), file, params, NoExc, <<>>, "")>>]
        : resp \in RemoteResponses} \cup
    {[t |-> "raise", r |-> NoResult, e |-> x,
      calls |-> <<Call("add_job", ctx, PyStr(hash_id), file, params, x, <<>>, "")>>]
        : x \in ClientFaults}

\* requests.get(job_file_url, timeout=30); file_response.raise_for_status()
FetchCall(url) ==
    {[t |-> "return", e |-> NoExc,
      calls |-> <<Call("requests.get", <<>>, PyStr(Join(url)), NoFile, <<>>, NoExc, <<>>, "")>>]} \cup
    {[t |-> "raise", e |-> x,
      calls |-> <<Call("requests.get", <<>>, PyStr(Join(url)), NoFile, <<>>, x, <<>>, "")>>]
        : x \in FetchFaults}

\* os.path.exists(file_path)
ExistsCall(path) ==
    {[exists |-> b,
      calls |-> <<Call("os.path.exists", <<>>, PyStr(Join(path)), NoFile, <<>>, NoExc, <<>>,
                       IF b THEN "True" ELSE "False")>>]
        : b \in BOOLEAN}

\* with open(file_path, 'rb') as f: file_content = f.read()
ReadCall(path) ==
    {[t |-> "return", e |-> NoExc,
      calls |-> <<Call("open", <<>>, PyStr(Join(path)), NoFile, <<>>, NoExc, <<>>, "")>>]} \cup
    {[t |-> "raise", e |-> x,
      calls |-> <<Call("open", <<>>, PyStr(Join(path)), NoFile, <<>>, x, <<>>, "")>>]
        : x \in ReadFaults}

\* mimetypes.guess_type(name), on either host
GuessTypeCall(name) ==
    {[mimetype |-> guess_type(name, tm),
      calls |-> <<Call("mimetypes.guess_type", <<>>, PyStr(Join(name)), NoFile, <<>>, NoExc,
                       <<>>, guess_type(name, tm))>>]
        : tm \in TypesMaps}

-----------------------------------------------------------------------------
(* main.py *)

create_lianke_client(api_key, device_id, device_key) ==
    IF ~Truthy(api_key) \/ ~Truthy(device_id) \/ ~Truthy(device_key)
    THEN [t |-> "raise", ctx |-> <<>>, e |-> ValueError(MsgEmptyContext), calls |-> <<>>]
    ELSE LET c == NewClient(api_key, device_id, device_key)
         IN  [t |-> "return", ctx |-> c.ctx, e |-> NoExc, calls |-> c.calls]

\* the three header lines every handler starts with
ApiKeyOf(r) == r.ApiKey
\* the argument taken before the header (the precedence reversed)
DeviceIdArgumentFirst(r) == Or(r.device_id, r.DeviceId)
DeviceIdOf(r) == Or(r.DeviceId, r.device_id)
DeviceKeyOf(r) == Or(r.DeviceKey, r.device_key)

\* `e.code or 503`
CodeOr503(e) == IF e.has_code /\ e.code # 0 THEN e.code ELSE 503

\* The except clauses that close the try block of every handler but
\* get_device_info; prefix is the literal of the handler's last clause.
ExceptClauses(o, prefix) ==
    IF o.t = "return" THEN o
    ELSE IF o.e.type = "LiankePrintingException"
         THEN Returned(Result(CodeOr503(o.e), Msg("", o.e.msg)), o.calls)
    ELSE IF o.e.type \in ValueErrorClasses
         THEN Returned(Result(400, Msg("", o.e.text)), o.calls)
    ELSE Returned(Result(503, Msg(prefix, o.e.text)), o.calls)

get_device_info(r) ==
    IF ~Truthy(ApiKeyOf(r)) THEN {Returned(Result(400, MsgNoApiKey), <<>>)}
    ELSE LET c == create_lianke_client(ApiKeyOf(r), DeviceIdOf(r), DeviceKeyOf(r))
         IN  IF c.t = "raise" THEN {Raised(c.e, c.calls)}
             ELSE {IF o.t = "raise" THEN Raised(o.e, c.calls \o o.calls)
                   ELSE Returned(o.r, c.calls \o o.calls)
                     : o \in ClientCall("device_info", c.ctx, PyStr(""))}

get_printer_list_try(r) ==
    IF ~Truthy(ApiKeyOf(r)) THEN {Returned(Result(400, MsgNoApiKey), <<>>)}
    ELSE LET c == create_lianke_client(ApiKeyOf(r), DeviceIdOf(r), DeviceKeyOf(r))
         IN  IF c.t = "raise" THEN {Raised(c.e, c.calls)}
             ELSE {IF o.t = "raise" THEN Raised(o.e, c.calls \o o.calls)
                   ELSE Returned(ResultWithData(200, Msg("", "success"),
                                     [printers |-> o.rows, total |-> Len(o.rows)]),
                                 c.calls \o o.calls)
                     : o \in PrinterListCall(c.ctx, r.printer_type)}
get_printer_list(r) ==
    {ExceptClauses(o, "getting the printer list failed: ") : o \in get_printer_list_try(r)}

\* (the last entry instead of the first)
LastPrinter(printers) == printers[Len(printers)].hash_id
\* printers[0]["hash_id"]
FirstPrinter(printers) == printers[1].hash_id

\* Returns the hash_id of the first USB printer, or None: every exception is
\* caught, logged and turned into None.
get_default_printer(api_key, device_id, device_key) ==
    LET c == create_lianke_client(api_key, device_id, device_key)
    IN  IF c.t = "raise" THEN {[hash |-> None, calls |-> c.calls]}
        ELSE {[hash |-> IF o.t = "raise" \/ o.rows = <<>> THEN None
                        ELSE FirstPrinter(o.rows),
               calls |-> c.calls \o o.calls]
                : o \in PrinterListCall(c.ctx, 1)}

get_printer_params_try(r) ==
    IF ~Truthy(ApiKeyOf(r)) THEN {Returned(Result(400, MsgNoApiKey), <<>>)}
    ELSE LET c == create_lianke_client(ApiKeyOf(r), DeviceIdOf(r), DeviceKeyOf(r))
         IN  IF c.t = "raise" THEN {Raised(c.e, c.calls)}
             ELSE {IF o.t = "raise" THEN Raised(o.e, c.calls \o o.calls)
                   ELSE Returned(ResultWithData(200, Msg("", "success"),
                                     IF o.r.data = NoData THEN EmptyData ELSE o.r.data),
                                 c.calls \o o.calls)
                     : o \in ClientCall("printer_params", c.ctx, PyStr(r.printer))}
get_printer_params(r) ==
    {ExceptClauses(o, "getting the printer parameters failed: ")
        : o \in get_printer_params_try(r)}

\* int(text) as the dict literal evaluates it
IntLiteralError(cs) ==
    ValueError("invalid literal for int() with base 10: '" \o Join(cs) \o "'")

\* job_params = {"dmPaperSize": int(dm_paper_size), "jpScale": jp_scale,
\*               "dmOrientation": int(dm_orientation), "dmCopies": int(dm_copies),
\*               "dmColor": int(dm_color)}, evaluated entry by entry
job_params(r) ==
    IF ~IsIntText(r.dm_paper_size)
    THEN [ok |-> FALSE, params |-> <<>>, e |-> IntLiteralError(r.dm_paper_size)]
    ELSE IF ~IsIntText(r.dm_orientation)
    THEN [ok |-> FALSE, params |-> <<>>, e |-> IntLiteralError(r.dm_orientation)]
    ELSE IF ~IsIntText(r.dm_copies)
    THEN [ok |-> FALSE, params |-> <<>>, e |-> IntLiteralError(r.dm_copies)]
    ELSE IF ~IsIntText(r.dm_color)
    THEN [ok |-> FALSE, params |-> <<>>, e |-> IntLiteralError(r.dm_color)]
    ELSE [ok |-> TRUE,
          params |-> ("dmPaperSize" :> PyInt(IntOf(r.dm_paper_size))) @@
                     ("jpScale" :> PyStr(r.jp_scale)) @@
                     ("dmOrientation" :> PyInt(IntOf(r.dm_orientation))) @@
                     ("dmCopies" :> PyInt(IntOf(r.dm_copies))) @@
                     ("dmColor" :> PyInt(IntOf(r.dm_color))),
          e |-> NoExc]

\* `if not hash_id: hash_id = get_default_printer(...)`: the printer the
\* submission goes to (None when there is none) and the invocations made
ResolvePrinter(r) ==
    IF Truthy(r.printer) THEN {[hash |-> r.printer, calls |-> <<>>]}
    ELSE get_default_printer(ApiKeyOf(r), DeviceIdOf(r), DeviceKeyOf(r))

\* The inner try block of submit_print_job and its
\* `except requests.RequestException` clause, with the invocations cs made so
\* far: fetch, filename, MIME type, add_job.
submit_print_job_fetch(r, ctx, hash_id, params, cs) ==
    UNION {
      IF f.t = "raise"
      THEN {Returned(Result(400, Msg(MsgDownloadFailed, f.e.text)), cs \o f.calls)}
      ELSE UNION {
             {IF a.t = "raise" /\ a.e.type \in RequestExceptionClasses
              THEN Returned(Result(400, Msg(MsgDownloadFailed, a.e.text)),
                            cs \o f.calls \o g.calls \o a.calls)
              ELSE IF a.t = "raise"
              THEN Raised(a.e, cs \o f.calls \o g.calls \o a.calls)
              ELSE Returned(a.r, cs \o f.calls \o g.calls \o a.calls)
                : a \in AddJobCall(ctx,
                                   [filename |-> Join(UrlFilename(r.doc)),
                                    mimetype |-> UrlMimeType(g.mimetype)],
                                   hash_id, params)}
             : g \in GuessTypeCall(r.doc)}
      : f \in FetchCall(r.doc)}

\* submit_print_job from the client creation on, for the printer hash_id
submit_print_job_to(r, hash_id, cs) ==
    LET c == create_lianke_client(ApiKeyOf(r), DeviceIdOf(r), DeviceKeyOf(r))
        jp == job_params(r)
        merged == merge_kwargs(jp.params, r.kwargs)
    IN  IF c.t = "raise" THEN {Raised(c.e, cs \o c.calls)}
        ELSE IF ~jp.ok THEN {Raised(jp.e, cs \o c.calls)}
        ELSE IF ~merged.ok THEN {Raised(merged.e, cs \o c.calls)}
        ELSE submit_print_job_fetch(r, c.ctx, hash_id, merged.params, cs \o c.calls)

submit_print_job_try(r) ==
    IF ~Truthy(ApiKeyOf(r)) THEN {Returned(Result(400, MsgNoApiKey), <<>>)}
    ELSE UNION {
           IF ~Truthy(p.hash) THEN {Returned(Result(404, MsgNoPrinter), p.calls)}
           ELSE submit_print_job_to(r, p.hash, p.calls)
           : p \in ResolvePrinter(r)}
submit_print_job(r) ==
    {ExceptClauses(o, "submitting the print job failed: ") : o \in submit_print_job_try(r)}

\* submit_print_job_with_file from the client creation on: the attachment is
\* already read and typed
submit_print_job_with_file_to(r, hash_id, mimetype, cs) ==
    LET c == create_lianke_client(ApiKeyOf(r), DeviceIdOf(r), DeviceKeyOf(r))
        jp == job_params(r)
        merged == merge_kwargs(jp.params, r.kwargs)
    IN  IF c.t = "raise" THEN {Raised(c.e, cs \o c.calls)}
        ELSE IF ~jp.ok THEN {Raised(jp.e, cs \o c.calls)}
        ELSE IF ~merged.ok THEN {Raised(merged.e, cs \o c.calls)}
        ELSE {IF a.t = "raise" THEN Raised(a.e, cs \o c.calls \o a.calls)
              ELSE Returned(a.r, cs \o c.calls \o a.calls)
                : a \in AddJobCall(c.ctx,
                                   [filename |-> Join(Basename(r.doc)),
                                    mimetype |-> mimetype],
                                   hash_id, merged.params)}

\* submit_print_job_with_file from the existence check up to the MIME type
submit_print_job_with_file_read(r, hash_id, cs) ==
    UNION {
      IF ~x.exists
      THEN {Returned(Result(400, Msg(MsgFileMissing, Join(r.doc))), cs \o x.calls)}
      ELSE UNION {
             IF f.t = "raise"
             THEN {Returned(Result(400, Msg(MsgReadFailed, f.e.text)),
                            cs \o x.calls \o f.calls)}
             ELSE UNION {
                    submit_print_job_with_file_to(
                        r, hash_id, FileMimeType(g.mimetype, Basename(r.doc)),
                        cs \o x.calls \o f.calls \o g.calls)
                    : g \in GuessTypeCall(r.doc)}
             : f \in ReadCall(r.doc)}
      : x \in ExistsCall(r.doc)}

submit_print_job_with_file_try(r) ==
    IF ~Truthy(ApiKeyOf(r)) THEN {Returned(Result(400, MsgNoApiKey), <<>>)}
    ELSE UNION {
           IF ~Truthy(p.hash) THEN {Returned(Result(404, MsgNoPrinter), p.calls)}
           ELSE submit_print_job_with_file_read(r, p.hash, p.calls)
           : p \in ResolvePrinter(r)}
submit_print_job_with_file(r) ==
    {ExceptClauses(o, "submitting the print job failed: ")
        : o \in submit_print_job_with_file_try(r)}

get_job_status_try(r) ==
    IF ~Truthy(ApiKeyOf(r)) THEN {Returned(Result(400, MsgNoApiKey), <<>>)}
    ELSE LET c == create_lianke_client(ApiKeyOf(r), DeviceIdOf(r), DeviceKeyOf(r))
         IN  IF c.t = "raise" THEN {Raised(c.e, c.calls)}
             ELSE {IF o.t = "raise" THEN Raised(o.e, c.calls \o o.calls)
                   ELSE Returned(o.r, c.calls \o o.calls)
                     : o \in ClientCall("job_result", c.ctx, PyStr(r.task_id))}
get_job_status(r) ==
    {ExceptClauses(o, "querying the job status failed: ") : o \in get_job_status_try(r)}

cancel_print_job_try(r) ==
    IF ~Truthy(ApiKeyOf(r)) THEN {Returned(Result(400, MsgNoApiKey), <<>>)}
    ELSE LET c == create_lianke_client(ApiKeyOf(r), DeviceIdOf(r), DeviceKeyOf(r))
         IN  IF c.t = "raise" THEN {Raised(c.e, c.calls)}
             ELSE {IF o.t = "raise" THEN Raised(o.e, c.calls \o o.calls)
                   ELSE Returned(o.r, c.calls \o o.calls)
                     : o \in ClientCall("cancel_job", c.ctx, PyStr(r.task_id))}
cancel_print_job(r) ==
    {ExceptClauses(o, "cancelling the job failed: ") : o \in cancel_print_job_try(r)}

get_printer_status_try(r) ==
    IF ~Truthy(ApiKeyOf(r)) THEN {Returned(Result(400, MsgNoApiKey), <<>>)}
    ELSE LET c == create_lianke_client(ApiKeyOf(r), DeviceIdOf(r), DeviceKeyOf(r))
         IN  IF c.t = "raise" THEN {Raised(c.e, c.calls)}
             ELSE {IF o.t = "raise" THEN Raised(o.e, c.calls \o o.calls)
                   ELSE IF o.is_none
                   THEN Returned(Result(503, MsgStatusFailed), c.calls \o o.calls)
                   ELSE Returned(o.r, c.calls \o o.calls)
                     : o \in PrinterStatusCall(c.ctx, PyStr(r.printer))}
get_printer_status(r) ==
    {ExceptClauses(o, "getting the printer status failed: ")
        : o \in get_printer_status_try(r)}

-----------------------------------------------------------------------------
(* The calls the host can deliver *)

T9 == <<"9">>
T1 == <<"1">>

\* the named options: the defaults of the signatures, another valid set, and
\* one set per option that is not the text of an integer
NamedOptions ==
    {[dm_paper_size |-> T9, jp_scale |-> "fit", dm_orientation |-> T1,
      dm_copies |-> T1, dm_color |-> T1],
     [dm_paper_size |-> <<"1", "1">>, jp_scale |-> "none", dm_orientation |-> <<" ", "2">>,
      dm_copies |-> <<"3">>, dm_color |-> <<"2">>],
     [dm_paper_size |-> <<"A", "4">>, jp_scale |-> "fit", dm_orientation |-> T1,
      dm_copies |-> T1, dm_color |-> T1],
     [dm_paper_size |-> T9, jp_scale |-> "fit", dm_orientation |-> <<>>,
      dm_copies |-> T1, dm_color |-> T1],
     [dm_paper_size |-> T9, jp_scale |-> "fit", dm_orientation |-> T1,
      dm_copies |-> <<"1", ".", "5">>, dm_color |-> T1],
     [dm_paper_size |-> T9, jp_scale |-> "fit", dm_orientation |-> T1,
      dm_copies |-> T1, dm_color |-> <<"x">>]}

KwargsInputs ==
    {KwEmpty, KwEmptyObject, KwObject, KwNumber, KwString, KwEmptyArray, KwPairs,
     KwGarbage}

\* the URL or path of the document; a URL may end in a slash
Documents ==
    {<<"u", "/", "a", ".", "p", "d", "f">>,
     <<"u", "/", "b", ".", "D", "o", "c", "x">>,
     <<"u", "/", "c", ".", "q">>}
UrlDocuments == Documents \cup {<<"u", "/">>}

\* the call metadata and the device arguments
DeviceInputs ==
    [ApiKey : {None, "", "ak"}, DeviceId : {None, "dev-h"}, DeviceKey : {"", "key-h"},
     device_id : {None, "dev-a"}, device_key : {None, "key-a"}]

SubmitOps == {"submit_print_job", "submit_print_job_with_file"}
PrinterOps == {"get_printer_params", "get_printer_status"}
TaskOps == {"get_job_status", "cancel_print_job"}
Operations ==
    {"get_device_info", "get_printer_list"} \cup PrinterOps \cup SubmitOps \cup TaskOps

\* a call: the operation, the device inputs and the operation's own arguments
\* (the arguments an operation does not take are left at fixed values)
MakeRequest(op, d, printer, task_id, printer_type, kwargs, o, doc) ==
    [op |-> op, ApiKey |-> d.ApiKey, DeviceId |-> d.DeviceId, DeviceKey |-> d.DeviceKey,
     device_id |-> d.device_id, device_key |-> d.device_key,
     printer |-> printer, task_id |-> task_id, printer_type |-> printer_type,
     kwargs |-> kwargs, dm_paper_size |-> o.dm_paper_size, jp_scale |-> o.jp_scale,
     dm_orientation |-> o.dm_orientation, dm_copies |-> o.dm_copies,
     dm_color |-> o.dm_color, doc |-> doc]

DefaultOptions == CHOOSE o \in NamedOptions : o.dm_paper_size = T9 /\ o.dm_orientation = T1
                                               /\ o.dm_copies = T1 /\ o.dm_color = T1

Requests ==
    {MakeRequest("get_device_info", d, None, "", 1, KwEmpty, DefaultOptions, <<>>)
        : d \in DeviceInputs} \cup
    {MakeRequest("get_printer_list", d, None, "", pt, KwEmpty, DefaultOptions, <<>>)
        : d \in DeviceInputs, pt \in {1, 2, 3}} \cup
    {MakeRequest(op, d, "ph", "", 1, KwEmpty, DefaultOptions, <<>>)
        : op \in PrinterOps, d \in DeviceInputs} \cup
    {MakeRequest(op, d, None, "task-1", 1, KwEmpty, DefaultOptions, <<>>)
        : op \in TaskOps, d \in DeviceInputs} \cup
    {r \in {MakeRequest(op, d, p, "", 1, kw, o, doc)
               : op \in SubmitOps, d \in DeviceInputs, p \in {None, "ph"},
                 kw \in KwargsInputs, o \in NamedOptions, doc \in UrlDocuments}
        : r.op = "submit_print_job" \/ r.doc \in Documents}

-----------------------------------------------------------------------------
(* The state machine *)

NoOutcome == [t |-> "pending", v |-> NoResult, e |-> NoExc]

Init ==
    /\ request \in Requests
    /\ pc = "pending"
    /\ result = NoOutcome
    /\ calls = <<>>

\* the handler of the operation op runs to its end
Handle(op, outcomes) ==
    /\ pc = "pending"
    /\ request.op = op
    /\ \E o \in outcomes :
         /\ result' = [t |-> o.t, v |-> o.v, e |-> o.e]
         /\ calls' = o.calls
    /\ pc' = "done"
    /\ UNCHANGED request

GetDeviceInfo == Handle("get_device_info", get_device_info(request))
GetPrinterList == Handle("get_printer_list", get_printer_list(request))
GetPrinterParams == Handle("get_printer_params", get_printer_params(request))
SubmitPrintJob == Handle("submit_print_job", submit_print_job(request))
SubmitPrintJobWithFile ==
    Handle("submit_print_job_with_file", submit_print_job_with_file(request))
GetJobStatus == Handle("get_job_status", get_job_status(request))
CancelPrintJob == Handle("cancel_print_job", cancel_print_job(request))
GetPrinterStatus == Handle("get_printer_status", get_printer_status(request))

Next ==
    \/ GetDeviceInfo
    \/ GetPrinterList
    \/ GetPrinterParams
    \/ SubmitPrintJob
    \/ SubmitPrintJobWithFile
    \/ GetJobStatus
    \/ CancelPrintJob
    \/ GetPrinterStatus

Spec == Init /\ [][Next]_vars

-----------------------------------------------------------------------------
(* Vocabulary of the properties *)

Done == pc = "done"

ClientMethods ==
    {"device_info", "printer_list", "printer_params", "add_job", "job_result",
     "cancel_job", "printer_status"}
\* every invocation that leaves the process
RemoteFns == {"LiankePrinting", "requests.get"} \cup ClientMethods
\* the invocations that acquire the document
DocumentFns == {"requests.get", "os.path.exists", "open"}

NoCall(fns) == \A i \in 1..Len(calls) : calls[i].fn \notin fns
CallsOf(fns) == {i \in 1..Len(calls) : calls[i].fn \in fns}

ReturnedCode(code) == result.t = "return" /\ result.v.code = code

\* the device fields after the precedence of the three header lines
ResolvedDeviceId ==
    IF request.DeviceId \notin {None, ""} THEN request.DeviceId ELSE request.device_id
ResolvedDeviceKey ==
    IF request.DeviceKey \notin {None, ""} THEN request.DeviceKey ELSE request.device_key
HasApiKey == request.ApiKey \notin {None, ""}
HasDevice == ResolvedDeviceId \notin {None, ""} /\ ResolvedDeviceKey \notin {None, ""}
HasPrinterArg == request.printer \notin {None, ""}

NamedKeys == {"dmPaperSize", "jpScale", "dmOrientation", "dmCopies", "dmColor"}
IntegerOptions ==
    /\ IsIntText(request.dm_paper_size)
    /\ IsIntText(request.dm_orientation)
    /\ IsIntText(request.dm_copies)
    /\ IsIntText(request.dm_color)
\* the value a named key has when no override touches it
DefaultValue(k) ==
    CASE k = "dmPaperSize" -> PyInt(IntOf(request.dm_paper_size))
      [] k = "jpScale" -> PyStr(request.jp_scale)
      [] k = "dmOrientation" -> PyInt(IntOf(request.dm_orientation))
      [] k = "dmCopies" -> PyInt(IntOf(request.dm_copies))
      [] k = "dmColor" -> PyInt(IntOf(request.dm_color))

-----------------------------------------------------------------------------
(* Properties *)

\* C1: a call whose metadata carries no ApiKey (absent or empty) returns code
\* 400 and makes no remote invocation: no client construction, no client
\* method, no document fetch.
C1_NoApiKey ==
    (Done /\ ~HasApiKey) => (ReturnedCode(400) /\ NoCall(RemoteFns))

\* a submission with an empty ApiKey header and a full device context ended
C1_Witness ==
    /\ Done
    /\ request.op = "submit_print_job"
    /\ request.ApiKey = ""
    /\ request.DeviceId = "dev-h"
    /\ request.DeviceKey = "key-h"
    /\ request.printer = None
    /\ ReturnedCode(400)

\* C2 as stated: with ApiKey present and the resolved device_id or device_key
\* empty, every operation returns code 400 and attempts no network call.
C2_EmptyDeviceIs400 ==
    (Done /\ HasApiKey /\ ~HasDevice) => (ReturnedCode(400) /\ NoCall(RemoteFns))

\* C3 as stated: no operation ends by raising to the host.
C3_NeverRaises == Done => result.t = "return"

\* C4: in a submission without a printer identifier, an empty USB printer list
\* ends the call with code 404 before any document fetch, existence check,
\* read or add_job; a non-empty list resolves the printer to the hash_id of its
\* first entry, which is the printer of every add_job of the call; with a
\* printer identifier the printer list is not queried.
C4_DefaultPrinter ==
    (Done /\ request.op \in SubmitOps) =>
        /\ HasPrinterArg => NoCall({"printer_list"})
        /\ ~HasPrinterArg =>
             \A i \in CallsOf({"printer_list"}) :
                calls[i].exc = NoExc =>
                   IF calls[i].rows = <<>>
                   THEN /\ ReturnedCode(404)
                        /\ NoCall(DocumentFns \cup {"add_job"})
                   ELSE /\ ~(result.t = "return" /\ result.v.msg = MsgNoPrinter)
                        /\ \A j \in CallsOf({"add_job"}) :
                              calls[j].arg = PyStr(calls[i].rows[1].hash_id)

\* a job went to p2, the first of the two printers listed
C4_Witness ==
    /\ Done
    /\ request.op = "submit_print_job"
    /\ ~HasPrinterArg
    /\ \E i \in CallsOf({"printer_list"}), j \in CallsOf({"add_job"}) :
          /\ calls[i].rows = <<[hash_id |-> "p2"], [hash_id |-> "p1"]>>
          /\ calls[j].arg = PyStr("p2")

\* C5 as stated: whenever the client raises a LiankePrintingException with code
\* c and message m during an operation, the result has code c (503 when c is
\* absent or zero) and msg m verbatim.
C5_FaultPassThrough ==
    Done =>
        \A i \in 1..Len(calls) :
           calls[i].exc.type = "LiankePrintingException" =>
              /\ ReturnedCode(IF calls[i].exc.has_code /\ calls[i].exc.code # 0
                              THEN calls[i].exc.code ELSE 503)
              /\ result.v.msg = Msg("", calls[i].exc.msg)

\* the payload of the call yields no key/value pair
NoPairs ==
    LET parsed == json_loads(request.kwargs)
    IN  \/ parsed.ok /\ parsed.value.kind = "object" /\ DOMAIN parsed.value.members = {}
        \/ parsed.ok /\ parsed.value.kind # "object"
        \/ ~parsed.ok /\ ~Contains(request.kwargs, "=")

\* nothing before add_job failed: the printer was given or found, the document
\* was fetched, or exists and was read
PrinterAndDocumentValid ==
    \A i \in 1..Len(calls) :
       /\ calls[i].fn # "add_job" => calls[i].exc = NoExc
       /\ calls[i].fn = "printer_list" => calls[i].rows # <<>>
       /\ calls[i].fn = "os.path.exists" => calls[i].out = "True"

\* C6 as stated: a submission with valid credentials, printer, named options
\* and document reaches add_job whatever the non-empty kwargs string is, and
\* with exactly the five named defaults when the payload yields no pairs.
C6_MalformedOverridesNeverAbort ==
    (/\ Done
     /\ request.op \in SubmitOps
     /\ request.kwargs # <<>>
     /\ HasApiKey /\ HasDevice
     /\ IntegerOptions
     /\ PrinterAndDocumentValid) =>
        /\ CallsOf({"add_job"}) # {}
        /\ NoPairs =>
             \A j \in CallsOf({"add_job"}) :
                /\ DOMAIN calls[j].params = NamedKeys
                /\ \A k \in NamedKeys : calls[j].params[k] = DefaultValue(k)

\* C7: when the payload parses as a JSON mapping, the parameters of add_job
\* are the payload's entries, each with the payload's value, and the default
\* of every named key the payload lacks, and nothing else.
C7_StructuredOverrides ==
    (/\ Done
     /\ request.op \in SubmitOps
     /\ request.kwargs # <<>>
     /\ json_loads(request.kwargs).ok
     /\ json_loads(request.kwargs).value.kind = "object") =>
        LET payload == json_loads(request.kwargs).value.members
        IN  \A j \in CallsOf({"add_job"}) :
               /\ DOMAIN calls[j].params = NamedKeys \cup DOMAIN payload
               /\ \A k \in DOMAIN payload : calls[j].params[k] = payload[k]
               /\ \A k \in NamedKeys \ DOMAIN payload :
                     calls[j].params[k] = DefaultValue(k)

\* a local-file job was submitted with dmCopies and dmColor overridden, duplex
\* added and the other three options as given
C7_Witness ==
    /\ Done
    /\ request.op = "submit_print_job_with_file"
    /\ request.kwargs = KwObject
    /\ request.jp_scale = "none"
    /\ \E j \in CallsOf({"add_job"}) :
          calls[j].params =
             ("dmPaperSize" :> PyInt(11)) @@ ("jpScale" :> PyStr("none")) @@
             ("dmOrientation" :> PyInt(2)) @@ ("dmCopies" :> PyInt(2)) @@
             ("dmColor" :> PyStr("2")) @@ ("duplex" :> PyInt(1))

\* C8 as stated: in submit_print_job a failed fetch gives code 400 with the
\* fetch error in msg, no add_job and a single fetch; and the download-failure
\* result is returned only when the fetch itself failed.
C8_DownloadFailure ==
    (Done /\ request.op = "submit_print_job") =>
        /\ \A i \in CallsOf({"requests.get"}) :
              calls[i].exc # NoExc =>
                 /\ ReturnedCode(400)
                 /\ result.v.msg = Msg(MsgDownloadFailed, calls[i].exc.text)
                 /\ NoCall({"add_job"})
                 /\ Cardinality(CallsOf({"requests.get"})) = 1
        /\ (result.t = "return" /\ result.v.msg.prefix = MsgDownloadFailed) =>
              \E i \in CallsOf({"requests.get"}) : calls[i].exc # NoExc

\* the MIME type of the three-tier chain for the document of the call, given
\* what the standard inference returned
ThreeTierMimeType(guessed) ==
    LET ext == Join(Lower(SplitExt(Basename(request.doc))))
    IN  IF guessed \notin {None, ""} THEN guessed
        ELSE IF ext \in DOMAIN mimetype_map THEN mimetype_map[ext]
        ELSE OctetStream

\* C9 as stated: in both submit operations the MIME type attached to the
\* document is the one of the three-tier chain (standard inference, then the
\* extension table, then application/octet-stream), and is never empty.
C9_SameMimeChain ==
    (Done /\ request.op \in SubmitOps) =>
        \A j \in CallsOf({"add_job"}) :
           /\ calls[j].file.mimetype # ""
           /\ \A g \in CallsOf({"mimetypes.guess_type"}) :
                 calls[j].file.mimetype = ThreeTierMimeType(calls[g].out)

\* C10 as stated: in a submission that gets as far as its parameters (device
\* context complete, printer given or found), an option that is not the text
\* of an integer gives code 400 with no add_job and no document fetched or
\* read; integer options reach add_job as integers, jp_scale as the string.
C10_OptionConversion ==
    (/\ Done
     /\ request.op \in SubmitOps
     /\ HasApiKey /\ HasDevice
     /\ HasPrinterArg) =>
        /\ ~IntegerOptions =>
              /\ ReturnedCode(400)
              /\ NoCall({"add_job", "requests.get", "open"})
        /\ (IntegerOptions /\ request.kwargs = <<>>) =>
              \A j \in CallsOf({"add_job"}) :
                 \A k \in NamedKeys : calls[j].params[k] = DefaultValue(k)

====
